---- MODULE Spec2Model ----
(***************************************************************************)
(* Model of the browser search client of DeereAkshay/project1: the boot()  *)
(* function of src/unnamed/part_000 (prewarm iframe, hardened fetchJson     *)
(* with one retry, renderTable, the two searches, CSV export, copy, reset). *)
(*                                                                          *)
(* Text is a sequence of chunks. A chunk is either one of the characters    *)
(* the code treats specially (" ", "&", "<", ">") or a run of characters    *)
(* the code passes through unchanged ("M-102", "db unavailable").           *)
(* A JavaScript value is a record tagged by its type in field t.            *)
(***************************************************************************)
EXTENDS Integers, Sequences, FiniteSets, TLC

\* ------------------------------------------------------------------ bounds
\* Number of user actions (searches, exports) that may be pending at once
\* when every action and the backend's whole repertoire are open.
MaxPending == 1
\* Number of searches that may be pending at once when searches overlap.
MaxOverlap == 2

\* ------------------------------------------------------- JavaScript values
Undef == [t |-> "undefined"]
JNull == [t |-> "null"]
JNum(n) == [t |-> "num", n |-> n]
JStr(s) == [t |-> "str", s |-> s]
JArr(a) == [t |-> "arr", a |-> a]
JObj(f) == [t |-> "obj", f |-> f]

\* The empty object {} : no own properties.
EmptyObj == JObj([k \in {} |-> Undef])

\* One own property / two objects merged (object literal construction).
Prop(k, v) == [x \in {k} |-> v]

\* Property read v[k] on a non-nullish value: own property or undefined.
Get(v, k) ==
  IF v.t = "obj" /\ k \in DOMAIN v.f THEN v.f[k]
  ELSE IF v.t = "arr" /\ k = <<"length">> THEN JNum(Len(v.a))
  ELSE IF v.t = "str" /\ k = <<"length">> THEN JNum(Len(v.s))
  ELSE Undef

\* A property read throws a TypeError on null and undefined.
IsNullish(v) == v.t \in {"null", "undefined"}

\* ToBoolean: what `a || b` and `!a` test.
Truthy(v) ==
  CASE v.t = "undefined" -> FALSE
    [] v.t = "null" -> FALSE
    [] v.t = "num" -> v.n # 0
    [] v.t = "str" -> v.s # <<>>
    [] OTHER -> TRUE

\* a || b
OrElse(a, b) == IF Truthy(a) THEN a ELSE b

\* String(v), as template literals and new Error(v) apply it.
JsString(v) ==
  CASE v.t = "undefined" -> <<"undefined">>
    [] v.t = "null" -> <<"null">>
    [] v.t = "num" -> <<ToString(v.n)>>
    [] v.t = "str" -> v.s
    [] v.t = "arr" -> <<"[array]">>
    [] OTHER -> <<"[object Object]">>

\* ------------------------------------------------------------ text helpers
RECURSIVE TrimStart(_)
TrimStart(s) ==
  IF s # <<>> /\ Head(s) = " " THEN TrimStart(Tail(s)) ELSE s

RECURSIVE TrimEnd(_)
TrimEnd(s) ==
  IF s # <<>> /\ s[Len(s)] = " " THEN TrimEnd(SubSeq(s, 1, Len(s) - 1)) ELSE s

\* String.prototype.trim
Trim(s) == TrimEnd(TrimStart(s))

\* s.replace(/c/g, r): every chunk c becomes the chunks r.
RECURSIVE ReplaceAll(_, _, _)
ReplaceAll(s, c, r) ==
  IF s = <<>> THEN <<>>
  ELSE (IF Head(s) = c THEN r ELSE <<Head(s)>>) \o ReplaceAll(Tail(s), c, r)

\* escapeHtml with the ampersand replaced last, after < and >.
escapeHtml_AmpersandLast(v) ==
  LET s0 == IF IsNullish(v) THEN <<>> ELSE JsString(v)
      s1 == ReplaceAll(s0, "<", <<"&", "lt;">>)
      s2 == ReplaceAll(s1, ">", <<"&", "gt;">>)
      s3 == ReplaceAll(s2, "&", <<"&", "amp;">>)
  IN s3

\* escapeHtml(v): String(v ?? "") with & then < then > replaced by entities.
\* An entity is the chunk "&" followed by the chunk naming it.
escapeHtml(v) ==
  LET s0 == IF IsNullish(v) THEN <<>> ELSE JsString(v)
      s1 == ReplaceAll(s0, "&", <<"&", "amp;">>)
      s2 == ReplaceAll(s1, "<", <<"&", "lt;">>)
      s3 == ReplaceAll(s2, ">", <<"&", "gt;">>)
  IN s3

\* The text a browser shows for markup h placed as element content:
\* entities are decoded, everything else is shown as it is.
RECURSIVE HtmlText(_)
HtmlText(h) ==
  IF h = <<>> THEN <<>>
  ELSE IF Len(h) >= 2 /\ h[1] = "&" /\ h[2] \in {"amp;", "lt;", "gt;"}
       THEN << (CASE h[2] = "amp;" -> "&" [] h[2] = "lt;" -> "<" [] OTHER -> ">") >>
            \o HtmlText(SubSeq(h, 3, Len(h)))
       ELSE <<Head(h)>> \o HtmlText(Tail(h))

\* encodeURIComponent on one chunk: reserved characters are percent-encoded,
\* runs of unreserved characters are kept.
EncodeChunk(c) ==
  CASE c = " " -> "%20"
    [] c = "&" -> "%26"
    [] c = "<" -> "%3C"
    [] c = ">" -> "%3E"
    [] OTHER -> c

encodeURIComponent(s) == [i \in 1..Len(s) |-> EncodeChunk(s[i])]

\* parseInt(s): optional sign, then the leading decimal digits; NaN (modelled
\* as 0 with nan set) when there is no digit.  Leading blanks are skipped.
DigitVal(c) ==
  CASE c = "0" -> 0 [] c = "1" -> 1 [] c = "2" -> 2 [] c = "3" -> 3
    [] c = "4" -> 4 [] c = "5" -> 5 [] c = "6" -> 6 [] c = "7" -> 7
    [] c = "8" -> 8 [] c = "9" -> 9 [] OTHER -> -1

RECURSIVE LeadingDigits(_, _, _)
LeadingDigits(s, acc, seen) ==
  IF s # <<>> /\ DigitVal(Head(s)) >= 0
  THEN LeadingDigits(Tail(s), 10 * acc + DigitVal(Head(s)), TRUE)
  ELSE [nan |-> ~seen, n |-> acc]

parseInt(s) ==
  LET t == TrimStart(s)
      neg == t # <<>> /\ Head(t) = "-"
      u == IF t # <<>> /\ Head(t) \in {"-", "+"} THEN Tail(t) ELSE t
      d == LeadingDigits(u, 0, FALSE)
  IN [nan |-> d.nan, n |-> IF neg THEN 0 - d.n ELSE d.n]

DefaultLimit == 50

\* parseInt(limitSelect.value) || 50 : NaN and 0 are falsy.
LimitOf(sel) ==
  LET p == parseInt(sel) IN IF p.nan \/ p.n = 0 THEN DefaultLimit ELSE p.n

\* ------------------------------------------------- payloads of the backend
K(name) == <<name>>

\* {columns:["id","site"], rows:[{id:"M-102",site:"NY"}], matched_rows:1}
DataOne ==
  JObj(Prop(K("columns"), JArr(<<JStr(<<"id">>), JStr(<<"site">>)>>))
       @@ Prop(K("rows"),
               JArr(<< JObj(Prop(K("id"), JStr(<<"M-102">>))
                            @@ Prop(K("site"), JStr(<<"NY">>))) >>))
       @@ Prop(K("matched_rows"), JNum(1)))

\* {columns:["id","n<m"], rows:[{id:"R&D"},{id:"x","n<m":"1>0"}], matched_rows:7}
DataTwo ==
  JObj(Prop(K("columns"), JArr(<<JStr(<<"id">>), JStr(<<"n", "<", "m">>)>>))
       @@ Prop(K("rows"),
               JArr(<< JObj(Prop(K("id"), JStr(<<"R", "&", "D">>))),
                       JObj(Prop(K("id"), JStr(<<"x">>))
                            @@ Prop(<<"n", "<", "m">>, JStr(<<"1", ">", "0">>))) >>))
       @@ Prop(K("matched_rows"), JNum(7)))

\* {columns:["id"], rows:5, matched_rows:1} : rows is not a list
DataBadRows ==
  JObj(Prop(K("columns"), JArr(<<JStr(<<"id">>)>>))
       @@ Prop(K("rows"), JNum(5))
       @@ Prop(K("matched_rows"), JNum(1)))

ErrDetail == JObj(Prop(K("detail"), JStr(<<"db unavailable">>)))
ErrNoDetail == JObj(Prop(K("error"), JStr(<<"x">>)))
ErrEmptyDetail == JObj(Prop(K("detail"), JStr(<<>>)))

\* Raw response texts.
TxtOne == <<"{\"columns\":[\"id\",\"site\"],\"rows\":[{\"id\":\"M-102\",\"site\":\"NY\"}],\"matched_rows\":1}">>
TxtTwo == <<"{\"columns\":[\"id\",\"n<m\"],\"rows\":[{\"id\":\"R&D\"},{\"id\":\"x\",\"n<m\":\"1>0\"}],\"matched_rows\":7}">>
TxtBadRows == <<"{\"columns\":[\"id\"],\"rows\":5,\"matched_rows\":1}">>
TxtEmptyObj == <<"{}">>
TxtNull == <<"null">>
TxtDetail == <<"{\"detail\":\"db unavailable\"}">>
TxtNoDetail == <<"{ \"error\": \"x\" }">>
TxtEmptyDetail == <<"{\"detail\":\"\"}">>
TxtBroken == <<"{oops">>
TxtLogin == <<"<", "html", ">", "Sign in">>
TxtPlain == <<"Internal Server Error">>
TxtBlank == <<" ">>
TxtCsv == <<"id,site\nM-102,NY\n">>
TxtExportFailed == <<"export failed">>

\* JSON.parse(text): the value, or a SyntaxError.
JsonParse(text) ==
  CASE text = TxtOne -> [ok |-> TRUE, val |-> DataOne]
    [] text = TxtTwo -> [ok |-> TRUE, val |-> DataTwo]
    [] text = TxtBadRows -> [ok |-> TRUE, val |-> DataBadRows]
    [] text = TxtEmptyObj -> [ok |-> TRUE, val |-> EmptyObj]
    [] text = TxtNull -> [ok |-> TRUE, val |-> JNull]
    [] text = TxtDetail -> [ok |-> TRUE, val |-> ErrDetail]
    [] text = TxtNoDetail -> [ok |-> TRUE, val |-> ErrNoDetail]
    [] text = TxtEmptyDetail -> [ok |-> TRUE, val |-> ErrEmptyDetail]
    [] OTHER -> [ok |-> FALSE, val |-> Undef]

\* JSON.stringify(j) with no indentation (the error bodies above).
JsonStringify(j) ==
  CASE j = ErrDetail -> <<"{\"detail\":\"db unavailable\"}">>
    [] j = ErrNoDetail -> <<"{\"error\":\"x\"}">>
    [] j = ErrEmptyDetail -> <<"{\"detail\":\"\"}">>
    [] j = EmptyObj -> <<"{}">>
    [] j = JNull -> <<"null">>

\* Messages the runtime gives to the errors it raises itself.
NetworkErrorMessage == <<"Failed to fetch">>
SyntaxErrorMessage == <<"Unexpected token in JSON">>
BodyReadErrorMessage == <<"body stream error">>
NullReadMessage == <<"Cannot read properties of null (reading 'columns')">>
NotIterableMessage == <<"rows is not iterable">>
NotFunctionMessage == <<"cols.map is not a function">>
NullRowMessage == <<"Cannot read properties of null">>

\* ---------------------------------------------------------------- responses
\* A response: status, content-type header ("" when absent), body text, and
\* whether reading the body stream fails.
Resp(status, ct, body) ==
  [status |-> status, ct |-> ct, body |-> body, readFails |-> FALSE]

CtJson == "application/json"
CtJsonUtf8 == "application/json; charset=utf-8"

SearchResponses ==
  { Resp(200, CtJson, TxtOne),
    Resp(200, CtJsonUtf8, TxtTwo),
    Resp(200, CtJson, TxtNull),
    Resp(200, CtJson, TxtBadRows),
    Resp(200, CtJson, <<>>),
    Resp(200, "", <<>>),
    Resp(200, "text/html", TxtLogin),
    Resp(500, CtJson, TxtDetail),
    Resp(500, CtJson, TxtNoDetail),
    Resp(500, CtJson, TxtEmptyDetail),
    Resp(500, "text/plain", TxtPlain),
    Resp(502, "text/html", <<>>),
    Resp(503, CtJson, TxtLogin) }

OverlapResponses ==
  { Resp(200, CtJson, TxtOne),
    Resp(200, CtJsonUtf8, TxtTwo),
    Resp(500, CtJson, TxtDetail) }

ExportResponses ==
  { Resp(200, "text/csv", TxtCsv),
    Resp(500, "text/plain", TxtExportFailed),
    Resp(500, "", <<>>) }

\* Response.ok
Ok(r) == r.status >= 200 /\ r.status <= 299

\* ct.includes('application/json')
CtIncludesJson(ct) == ct \in {CtJson, CtJsonUtf8}

Threw(m) == [threw |-> TRUE, msg |-> m, data |-> Undef]
Returned(d) == [threw |-> FALSE, msg |-> <<>>, data |-> d]

\* `HTTP ${r.status}`
HttpStatusMessage(r) == <<"HTTP ", ToString(r.status)>>

\* FailureMessage with the body serialized even when it has a detail field.
FailureMessage_SerializesFirst(r) ==
  IF r.readFails THEN HttpStatusMessage(r)
  ELSE IF CtIncludesJson(r.ct)
       THEN LET p == JsonParse(r.body) IN
            IF ~p.ok \/ IsNullish(p.val) THEN HttpStatusMessage(r)
            ELSE JsonStringify(p.val)
       ELSE r.body

\* The message of the non-success branch of attempt (before `|| 'Request failed'`).
FailureMessage(r) ==
  IF r.readFails THEN HttpStatusMessage(r)
  ELSE IF CtIncludesJson(r.ct)
       THEN LET p == JsonParse(r.body) IN
            IF ~p.ok \/ IsNullish(p.val) THEN HttpStatusMessage(r)
            ELSE JsString(OrElse(Get(p.val, K("detail")), JStr(JsonStringify(p.val))))
       ELSE r.body

\* fetchJson's attempt(r): the parsed payload, or the Error it throws.
attempt(r) ==
  IF ~Ok(r)
  THEN LET msg == FailureMessage(r) IN
       Threw(IF msg # <<>> THEN msg ELSE <<"Request failed">>)
  ELSE IF r.readFails THEN Threw(BodyReadErrorMessage)
  ELSE IF ~CtIncludesJson(r.ct)
       THEN Threw(IF r.body # <<>> THEN r.body ELSE <<"Non-JSON response received">>)
  ELSE IF r.body = <<>> \/ Trim(r.body) = <<>>
       THEN Threw(<<"Empty response from server">>)
  ELSE LET p == JsonParse(r.body) IN
       IF p.ok THEN Returned(p.val) ELSE Threw(SyntaxErrorMessage)

\* ------------------------------------------------------------------ render
\* The rows the `for (const r of rows)` loop visits (a string iterates by
\* character).
RowSeq(rows) ==
  IF rows.t = "arr" THEN rows.a ELSE [i \in 1..Len(rows.s) |-> JStr(<<rows.s[i]>>)]

\* renderTable(data), as the effects it has before it returns or throws:
\*   stored   lastResult, both pills and both buttons were assigned
\*   threw    a TypeError ended the function, with message msg
\*   out      the markup assigned to outputBox when it did not throw
renderTable(data) ==
  IF IsNullish(data)
  THEN [threw |-> TRUE, msg |-> NullReadMessage, stored |-> FALSE,
        matched |-> <<>>, returned |-> <<>>, out |-> [kind |-> "none"]]
  ELSE
    LET cols == OrElse(Get(data, K("columns")), JArr(<<>>))
        rows == OrElse(Get(data, K("rows")), JArr(<<>>))
        matched == <<"Matched: ">> \o JsString(Get(data, K("matched_rows")))
        returned == <<"Returned: ">> \o JsString(Get(rows, K("length")))
        part(m) == [threw |-> TRUE, msg |-> m, stored |-> TRUE,
                    matched |-> matched, returned |-> returned,
                    out |-> [kind |-> "none"]]
    IN
    IF cols.t # "arr" THEN part(NotFunctionMessage)
    ELSE IF rows.t \notin {"arr", "str"} THEN part(NotIterableMessage)
    ELSE IF cols.a # <<>> /\ \E i \in 1..Len(RowSeq(rows)) : IsNullish(RowSeq(rows)[i])
         THEN part(NullRowMessage)
    ELSE [threw |-> FALSE, msg |-> <<>>, stored |-> TRUE,
          matched |-> matched, returned |-> returned,
          out |-> [kind |-> "table",
                   matched |-> escapeHtml(Get(data, K("matched_rows"))),
                   returned |-> escapeHtml(Get(rows, K("length"))),
                   head |-> [i \in 1..Len(cols.a) |-> escapeHtml(cols.a[i])],
                   body |-> [i \in 1..Len(RowSeq(rows)) |->
                              [j \in 1..Len(cols.a) |->
                                escapeHtml(Get(RowSeq(rows)[i], JsString(cols.a[j])))]]]]

\* attempt and renderTable over the responses and payloads of the model,
\* tabulated so that each is computed once.
Attempted == [r \in SearchResponses \cup OverlapResponses |-> attempt(r)]

Payloads ==
  {Attempted[r].data : r \in {x \in DOMAIN Attempted : ~Attempted[x].threw}}

Rendered == [d \in Payloads |-> renderTable(d)]

\* ------------------------------------------------------------------- state
VARIABLES
  lastSearch,           \* null, or the stored { type, value }
  lastResult,           \* null, or the payload last given to renderTable
  downloadBtnDisabled,  \* downloadBtn.disabled
  copyJsonBtnDisabled,  \* copyJsonBtn.disabled
  outputBox,            \* outputBox.innerHTML
  matchedPill,          \* matchedPill.textContent
  returnedPill,         \* returnedPill.textContent
  statusText,           \* statusText.textContent
  prewarmed,            \* the prewarmed flag
  bootIframe,           \* the iframe made at boot: "loading" or "removed"
  iframesCreated,       \* how many /health iframes were created so far
  tasks,                \* the pending user actions (async function activations)
  env,                  \* the surroundings: how many actions the user lets pend,
                        \* what the limit selector offers, what the backend answers
  last                  \* the step taken last and what it gave out: the toast,
                        \* the clipboard write, the download, and for a step
                        \* that ends an action the requests the action had sent

vars == <<lastSearch, lastResult, downloadBtnDisabled, copyJsonBtnDisabled,
          outputBox, matchedPill, returnedPill, statusText, prewarmed,
          bootIframe, iframesCreated, tasks, env, last>>

store == <<lastSearch, lastResult, downloadBtnDisabled, copyJsonBtnDisabled,
           matchedPill, returnedPill>>
screen == <<outputBox, statusText>>
warmup == <<prewarmed, bootIframe, iframesCreated>>

\* Positions in tasks, which lists the pending activations oldest first.
Slots == 1..env.pending

\* A search that waits for its warm-up iframe has read nothing yet.
\* Beside what the activation holds (pc, kind, v, abs) a task records its
\* history: sent, the URLs it requested; first, why its first attempt was
\* refused ("status": a non-success status, "format": a success status that
\* attempt threw on); passed, whether a search started after it has already
\* been rendered.
\* Waiting with the data request already sent alongside the warm-up.
Waiting_WithRequest(kind) ==
  [pc |-> "prewarm", kind |-> kind, v |-> <<>>, abs |-> <<>>,
   sent |-> << <<"/api/search">> >>, first |-> "none", passed |-> FALSE]

Waiting(kind) ==
  [pc |-> "prewarm", kind |-> kind, v |-> <<>>, abs |-> <<>>, sent |-> <<>>,
   first |-> "none", passed |-> FALSE]

\* tasks without its i-th activation, the older ones marked as passed.
RemovePassing(i) ==
  [j \in 1..(Len(tasks) - 1) |->
     IF j < i THEN [tasks[j] EXCEPT !.passed = TRUE] ELSE tasks[j + 1]]

\* tasks without its i-th activation.
Remove(i) == SubSeq(tasks, 1, i - 1) \o SubSeq(tasks, i + 1, Len(tasks))

\* What the user may have typed in a text field / what the limit selector holds.
InputTexts == { <<>>, <<" ", " ">>, <<" ", "M-102", " ", "&", "Co", " ">> }
SelectValues == { <<"5", "0">>, <<"a", "l", "l">> }

Kinds == {"machine", "location"}

HintBox == [kind |-> "hint"]
NoToast == [type |-> "none", msg |-> <<>>]
NoWrite == [written |-> FALSE, indent |-> 0, value |-> Undef]
NoFile == [name |-> <<>>, body |-> <<>>]

\* No response: the fetch promise rejected (network-level failure).
NetworkFailure == Resp(0, "", <<>>)
NoResp == Resp(-1, "", <<>>)

\* The record of a step: its name, the toast it showed, what it wrote to the
\* clipboard, the file it downloaded; for a step that ends an action, how
\* many requests the action sent, whether it made a warm-up iframe, the
\* response that ended it, why its first attempt was refused, how many
\* actions started before it (older) and after it (newer) are still pending,
\* and whether a search started after it was rendered before it.
Step(ev) ==
  [ev |-> ev, toast |-> NoToast, clipboard |-> NoWrite, file |-> NoFile,
   reqs |-> 0, warm |-> FALSE, resp |-> NoResp, first |-> "none",
   older |-> 0, newer |-> 0, passed |-> FALSE, sel |-> <<>>, again |-> FALSE]

\* The record of the step that ends the i-th activation.
Ends(ev, i, t, r) ==
  [Step(ev) EXCEPT !.toast = t, !.reqs = Len(tasks[i].sent), !.resp = r,
                   !.first = tasks[i].first, !.passed = tasks[i].passed,
                   !.older = i - 1, !.newer = Len(tasks) - i]

\* toast(type, msg)
toast(type, msg) == [type |-> type, msg |-> msg]

\* showHint that leaves the two counters as they are.
showHint_KeepsCounters ==
  /\ lastResult' = JNull
  /\ lastSearch' = JNull
  /\ downloadBtnDisabled' = TRUE
  /\ copyJsonBtnDisabled' = TRUE
  /\ outputBox' = HintBox
  /\ matchedPill' = matchedPill
  /\ returnedPill' = returnedPill
  /\ statusText' = <<"Ready.">>

\* showHint that clears the result but keeps the stored search.
showHint_KeepsSearch ==
  /\ lastResult' = JNull
  /\ lastSearch' = lastSearch
  /\ downloadBtnDisabled' = TRUE
  /\ copyJsonBtnDisabled' = TRUE
  /\ outputBox' = HintBox
  /\ matchedPill' = <<"Matched: ", "0">>
  /\ returnedPill' = <<"Returned: ", "0">>
  /\ statusText' = <<"Ready.">>

\* ---------------------------------------------------------------- UI parts
\* showHint()
showHint ==
  /\ lastResult' = JNull
  /\ lastSearch' = JNull
  /\ downloadBtnDisabled' = TRUE
  /\ copyJsonBtnDisabled' = TRUE
  /\ outputBox' = HintBox
  /\ matchedPill' = <<"Matched: ", "0">>
  /\ returnedPill' = <<"Returned: ", "0">>
  /\ statusText' = <<"Ready.">>

\* showError(message): the output area and the status; its toast is part of
\* the step's record.
showError(message) ==
  /\ outputBox' = [kind |-> "error", html |-> escapeHtml(JStr(message))]
  /\ statusText' = <<"Error!">>

\* showLoading(msg)
showLoading(msg) ==
  /\ outputBox' = [kind |-> "loading", html |-> escapeHtml(JStr(msg))]
  /\ statusText' = msg

\* The state boot() leaves: showHint() and the first prewarm iframe loading.
Booted ==
  /\ lastResult = JNull
  /\ lastSearch = JNull
  /\ downloadBtnDisabled = TRUE
  /\ copyJsonBtnDisabled = TRUE
  /\ outputBox = HintBox
  /\ matchedPill = <<"Matched: ", "0">>
  /\ returnedPill = <<"Returned: ", "0">>
  /\ statusText = <<"Ready.">>
  /\ prewarmed = FALSE
  /\ bootIframe = "loading"
  /\ iframesCreated = 1
  /\ tasks = <<>>
  /\ last = Step("boot")

Init ==
  /\ Booted
  /\ env = [pending |-> MaxPending, selects |-> SelectValues,
            responses |-> SearchResponses]

\* Overlapping searches against a backend that answers with a result or with
\* a 500.
InitOverlap ==
  /\ Booted
  /\ env = [pending |-> MaxOverlap, selects |-> {<<"5", "0">>},
            responses |-> OverlapResponses]

\* What the limit selector may hold when its value is what matters, and a
\* backend that answers with the scenario's result or with a 500.
LimitSelectValues ==
  { <<>>, <<"a", "l", "l">>, <<"0">>, <<"-", "5">>, <<"2", "5">>,
    <<"5", "0">>, <<"1", "0", "0">>, <<"1", "2", "p", "x">> }

LimitResponses == { Resp(200, CtJson, TxtOne), Resp(500, CtJson, TxtDetail) }

InitLimit ==
  /\ Booted
  /\ env = [pending |-> MaxPending, selects |-> LimitSelectValues,
            responses |-> LimitResponses]

\* -------------------------------------------------------------------- URLs
Origin == "http://localhost"

\* `/api/search/<kind>?<key>=${encodeURIComponent(v)}&limit=${limit}`
SearchUrl(kind, v, limit) ==
  << IF kind = "machine" THEN "/api/search/machine?machine_id="
                         ELSE "/api/search/location?q=" >>
  \o encodeURIComponent(v) \o <<"&limit=", ToString(limit)>>

\* ExportUrl built like a search URL, with a limit parameter.
ExportUrl_WithLimit(ls) ==
  << IF ls.type = "machine" THEN "/api/export/machine?machine_id="
                            ELSE "/api/export/location?q=" >>
  \o encodeURIComponent(ls.value) \o <<"&limit=", "50">>

\* `/api/export/<kind>?<key>=${encodeURIComponent(lastSearch.value)}`
ExportUrl(ls) ==
  << IF ls.type = "machine" THEN "/api/export/machine?machine_id="
                            ELSE "/api/export/location?q=" >>
  \o encodeURIComponent(ls.value)

\* fetchJson's abs: the origin in front of a path that starts with "/".
AbsUrl(url) == <<Origin>> \o url

RequiredMessage(kind) ==
  IF kind = "machine" THEN <<"Machine ID required">> ELSE <<"Location required">>

LoadingMessage(kind) ==
  IF kind = "machine" THEN <<"Searching machine...">> ELSE <<"Searching location...">>

\* ----------------------------------------------------------------- searches
\* searchByMachine / searchByLocation after `await prewarmViaIframe()`:
\* read and trim the field, validate, show the loading message, build the
\* URL and let fetchJson issue its first request.  rest is the other pending
\* activations, and i the place of this one among them.
searchBody(i, rest, kind, warm) ==
  \E raw \in InputTexts :
    LET v == Trim(raw) IN
    IF v = <<>>
    THEN /\ showError(RequiredMessage(kind))
         /\ tasks' = rest
         /\ last' = [Step("validation") EXCEPT
                       !.toast = toast("error", RequiredMessage(kind)),
                       !.warm = warm,
                       !.older = i - 1, !.newer = Len(rest) + 1 - i]
         /\ UNCHANGED store
    ELSE \E sel \in env.selects :
         LET abs == AbsUrl(SearchUrl(kind, v, LimitOf(sel)))
             t == [pc |-> "fetch1", kind |-> kind, v |-> v, abs |-> abs,
                   sent |-> <<abs>>, first |-> "none", passed |-> FALSE]
         IN
         /\ showLoading(LoadingMessage(kind))
         /\ tasks' = SubSeq(rest, 1, i - 1) \o <<t>> \o SubSeq(rest, i, Len(rest))
         /\ last' = [Step("searching") EXCEPT !.sel = sel]
         /\ UNCHANGED store

\* A click (or Enter) on a search: prewarmViaIframe() resolves at once when
\* prewarmed, and otherwise creates one more iframe and waits for it.
Submit(kind) ==
  /\ Len(tasks) < env.pending
  /\ IF prewarmed
     THEN searchBody(Len(tasks) + 1, tasks, kind, FALSE) /\ UNCHANGED warmup
     ELSE /\ iframesCreated' = iframesCreated + 1
          /\ tasks' = Append(tasks, Waiting(kind))
          /\ last' = Step("prewarming")
          /\ UNCHANGED <<store, screen, prewarmed, bootIframe>>

searchByMachine == Submit("machine")
searchByLocation == Submit("location")

\* onload / onerror of the iframe made at boot.
BootIframeLoaded ==
  /\ bootIframe = "loading"
  /\ bootIframe' = "removed"
  /\ prewarmed' = TRUE
  /\ last' = Step("prewarmed")
  /\ UNCHANGED <<store, screen, iframesCreated, tasks>>

\* onload / onerror of the iframe a search made: the search goes on.
SearchIframeLoaded(i) ==
  /\ i <= Len(tasks)
  /\ tasks[i].pc = "prewarm"
  /\ prewarmed' = TRUE
  /\ UNCHANGED <<bootIframe, iframesCreated>>
  /\ searchBody(i, Remove(i), tasks[i].kind, TRUE)

\* The search's catch block: showError(e.message).
searchFails(i, msg, r) ==
  /\ showError(msg)
  /\ tasks' = Remove(i)
  /\ last' = Ends("searchError", i, toast("error", msg), r)
  /\ UNCHANGED <<store, warmup>>

\* searchRenders with the two buttons enabled at the end of renderTable, after
\* the table was built, instead of right after lastResult is assigned.
searchRenders_EnablesLate(i, data, r) ==
  LET t == tasks[i]
      eff == Rendered[data]
  IN
  /\ lastSearch' = [t |-> "search", type |-> t.kind, value |-> t.v]
  /\ IF eff.stored
     THEN /\ lastResult' = data
          /\ matchedPill' = eff.matched
          /\ returnedPill' = eff.returned
     ELSE UNCHANGED <<lastResult, matchedPill, returnedPill>>
  /\ IF eff.threw
     THEN showError(eff.msg) /\ UNCHANGED <<downloadBtnDisabled, copyJsonBtnDisabled>>
     ELSE /\ outputBox' = eff.out
          /\ statusText' = <<"Loaded results.">>
          /\ downloadBtnDisabled' = FALSE
          /\ copyJsonBtnDisabled' = FALSE
  /\ tasks' = RemovePassing(i)
  /\ last' = IF eff.threw
             THEN Ends("renderError", i, toast("error", eff.msg), r)
             ELSE Ends("rendered", i, NoToast, r)
  /\ UNCHANGED warmup

\* searchRenders with the rows added to a table already shown instead of the
\* output being replaced.
searchRenders_AppendsRows(i, data, r) ==
  LET t == tasks[i]
      eff == Rendered[data]
  IN
  /\ lastSearch' = [t |-> "search", type |-> t.kind, value |-> t.v]
  /\ IF eff.stored
     THEN /\ lastResult' = data
          /\ matchedPill' = eff.matched
          /\ returnedPill' = eff.returned
          /\ downloadBtnDisabled' = FALSE
          /\ copyJsonBtnDisabled' = FALSE
     ELSE UNCHANGED <<lastResult, matchedPill, returnedPill,
                      downloadBtnDisabled, copyJsonBtnDisabled>>
  /\ IF eff.threw
     THEN showError(eff.msg)
     ELSE /\ outputBox' = IF outputBox.kind = "table"
                          THEN [eff.out EXCEPT !.body = outputBox.body \o @]
                          ELSE eff.out
          /\ statusText' = <<"Loaded results.">>
  /\ tasks' = RemovePassing(i)
  /\ last' = IF eff.threw
             THEN Ends("renderError", i, toast("error", eff.msg), r)
             ELSE [Ends("rendered", i, NoToast, r) EXCEPT
                     !.again = (last.ev = "rendered" /\ lastResult = data)]
  /\ UNCHANGED warmup

\* fetchJson returned data: lastSearch = {...}; renderTable(data), with the
\* catch block when renderTable throws.
searchRenders(i, data, r) ==
  LET t == tasks[i]
      eff == Rendered[data]
  IN
  /\ lastSearch' = [t |-> "search", type |-> t.kind, value |-> t.v]
  /\ IF eff.stored
     THEN /\ lastResult' = data
          /\ matchedPill' = eff.matched
          /\ returnedPill' = eff.returned
          /\ downloadBtnDisabled' = FALSE
          /\ copyJsonBtnDisabled' = FALSE
     ELSE UNCHANGED <<lastResult, matchedPill, returnedPill,
                      downloadBtnDisabled, copyJsonBtnDisabled>>
  /\ IF eff.threw
     THEN showError(eff.msg)
     ELSE /\ outputBox' = eff.out
          /\ statusText' = <<"Loaded results.">>
  /\ tasks' = RemovePassing(i)
  /\ last' = IF eff.threw
             THEN Ends("renderError", i, toast("error", eff.msg), r)
             ELSE [Ends("rendered", i, NoToast, r) EXCEPT
                     !.again = (last.ev = "rendered" /\ lastResult = data)]
  /\ UNCHANGED warmup

\* FirstSettled with request fencing: the response of a search that a later
\* submitted search has already overtaken is dropped.
FirstSettled_Fenced(i) ==
  /\ i <= Len(tasks)
  /\ tasks[i].pc = "fetch1"
  /\ \/ searchFails(i, NetworkErrorMessage, NetworkFailure)
     \/ \E why \in {"status", "format"} :
          /\ \E r \in env.responses :
               Attempted[r].threw /\ (why = "status" <=> ~Ok(r))
          /\ tasks' = [tasks EXCEPT ![i].pc = "delay", ![i].first = why]
          /\ last' = Step("retryScheduled")
          /\ UNCHANGED <<store, screen, warmup>>
     \/ \E r \in env.responses :
          /\ ~Attempted[r].threw
          /\ IF tasks[i].passed
             THEN /\ tasks' = Remove(i)
                  /\ last' = Ends("rendered", i, NoToast, r)
                  /\ UNCHANGED <<store, screen, warmup>>
             ELSE searchRenders(i, Attempted[r].data, r)

\* The first request settles.  A rejected fetch is outside fetchJson's try
\* block and goes straight to the search's catch; a response that attempt
\* refuses starts the 250 ms timer.
FirstSettled(i) ==
  /\ i <= Len(tasks)
  /\ tasks[i].pc = "fetch1"
  /\ \/ searchFails(i, NetworkErrorMessage, NetworkFailure)
     \/ \E why \in {"status", "format"} :
          /\ \E r \in env.responses :
               Attempted[r].threw /\ (why = "status" <=> ~Ok(r))
          /\ tasks' = [tasks EXCEPT ![i].pc = "delay", ![i].first = why]
          /\ last' = Step("retryScheduled")
          /\ UNCHANGED <<store, screen, warmup>>
     \/ \E r \in env.responses :
          /\ ~Attempted[r].threw
          /\ searchRenders(i, Attempted[r].data, r)

RetryDelayMs == 250

\* The timer fires: doFetch() again, on the same abs.
RetryTimer(i) ==
  /\ i <= Len(tasks)
  /\ tasks[i].pc = "delay"
  /\ tasks' = [tasks EXCEPT ![i].pc = "fetch2",
                            ![i].sent = Append(@, tasks[i].abs)]
  /\ last' = Step("retrying")
  /\ UNCHANGED <<store, screen, warmup>>

\* RetrySettled as a retry loop: a refused retry waits and tries again.
RetrySettled_RetriesAgain(i) ==
  /\ i <= Len(tasks)
  /\ tasks[i].pc = "fetch2"
  /\ \/ searchFails(i, NetworkErrorMessage, NetworkFailure)
     \/ \E r \in env.responses :
          LET a == Attempted[r] IN
          IF a.threw
          THEN /\ tasks' = [tasks EXCEPT ![i].pc = "delay"]
               /\ last' = Step("retryScheduled")
               /\ UNCHANGED <<store, screen, warmup>>
          ELSE searchRenders(i, a.data, r)

\* The retry settles: whatever it gives is the result of fetchJson.
RetrySettled(i) ==
  /\ i <= Len(tasks)
  /\ tasks[i].pc = "fetch2"
  /\ \/ searchFails(i, NetworkErrorMessage, NetworkFailure)
     \/ \E r \in env.responses :
          LET a == Attempted[r] IN
          IF a.threw THEN searchFails(i, a.msg, r) ELSE searchRenders(i, a.data, r)

\* ------------------------------------------------------ export, copy, reset
\* downloadAllMatched() up to its fetch.
downloadAllMatched ==
  IF ~Truthy(lastSearch)
  THEN /\ showError(<<"Search first before exporting.">>)
       /\ last' = [Step("exportRefused") EXCEPT
                     !.toast = toast("error", <<"Search first before exporting.">>)]
       /\ UNCHANGED <<store, warmup, tasks>>
  ELSE /\ Len(tasks) < env.pending
       /\ tasks' = Append(tasks,
                      [pc |-> "export", kind |-> lastSearch.type, v |-> lastSearch.value,
                       abs |-> ExportUrl(lastSearch), sent |-> <<ExportUrl(lastSearch)>>,
                       first |-> "none", passed |-> FALSE])
       /\ last' = [Step("exporting") EXCEPT
                     !.toast = toast("success", <<"Preparing full CSV...">>)]
       /\ UNCHANGED <<store, screen, warmup>>

\* exportFails that forgets the stored search after a failed export.
exportFails_ForgetsSearch(i, msg, r) ==
  /\ showError(msg)
  /\ tasks' = Remove(i)
  /\ last' = Ends("exportError", i, toast("error", msg), r)
  /\ lastSearch' = JNull
  /\ UNCHANGED <<lastResult, downloadBtnDisabled, copyJsonBtnDisabled,
                 matchedPill, returnedPill, warmup>>

exportFails(i, msg, r) ==
  /\ showError(msg)
  /\ tasks' = Remove(i)
  /\ last' = Ends("exportError", i, toast("error", msg), r)
  /\ UNCHANGED <<store, warmup>>

\* The export request settles: download results.csv, or show the error.
ExportSettled(i) ==
  /\ i <= Len(tasks)
  /\ tasks[i].pc = "export"
  /\ \/ exportFails(i, NetworkErrorMessage, NetworkFailure)
     \/ \E r \in ExportResponses :
          IF ~Ok(r)
          THEN exportFails(i, IF r.body # <<>> THEN r.body ELSE HttpStatusMessage(r), r)
          ELSE /\ tasks' = Remove(i)
               /\ last' = [Ends("exported", i, NoToast, r) EXCEPT
                             !.file = [name |-> <<"results.csv">>, body |-> r.body]]
               /\ UNCHANGED <<store, screen, warmup>>

\* copyJson(): the clipboard write succeeds or is refused.
copyJson ==
  /\ IF ~Truthy(lastResult)
     THEN last' = Step("copyNothing")
     ELSE \/ last' = [Step("copied") EXCEPT
                        !.clipboard = [written |-> TRUE, indent |-> 2,
                                       value |-> Get(lastResult, K("rows"))],
                        !.toast = toast("success", <<"Copied JSON to clipboard">>)]
          \/ last' = [Step("copyFailed") EXCEPT
                        !.toast = toast("error", <<"Copy failed">>)]
  /\ UNCHANGED <<store, screen, warmup, tasks>>

\* Reset that also abandons what is pending.
Reset_Cancels ==
  /\ showHint
  /\ tasks' = <<>>
  /\ last' = Step("reset")
  /\ UNCHANGED warmup

\* clearBtn.onclick = showHint
Reset ==
  /\ showHint
  /\ last' = Step("reset")
  /\ UNCHANGED <<warmup, tasks>>

Next ==
  \/ searchByMachine /\ UNCHANGED env
  \/ searchByLocation /\ UNCHANGED env
  \/ BootIframeLoaded /\ UNCHANGED env
  \/ \E i \in Slots : SearchIframeLoaded(i) /\ UNCHANGED env
  \/ \E i \in Slots : FirstSettled(i) /\ UNCHANGED env
  \/ \E i \in Slots : RetryTimer(i) /\ UNCHANGED env
  \/ \E i \in Slots : RetrySettled(i) /\ UNCHANGED env
  \/ downloadAllMatched /\ UNCHANGED env
  \/ \E i \in Slots : ExportSettled(i) /\ UNCHANGED env
  \/ copyJson /\ UNCHANGED env
  \/ Reset /\ UNCHANGED env

\* The whole client.
Spec == Init /\ [][Next]_vars

\* The search pipeline alone, with searches that overlap.
NextOverlap ==
  \/ searchByMachine /\ UNCHANGED env
  \/ searchByLocation /\ UNCHANGED env
  \/ BootIframeLoaded /\ UNCHANGED env
  \/ \E i \in Slots : SearchIframeLoaded(i) /\ UNCHANGED env
  \/ \E i \in Slots : FirstSettled(i) /\ UNCHANGED env
  \/ \E i \in Slots : RetryTimer(i) /\ UNCHANGED env
  \/ \E i \in Slots : RetrySettled(i) /\ UNCHANGED env
  \/ Reset /\ UNCHANGED env

SpecOverlap == InitOverlap /\ [][NextOverlap]_vars

\* The whole client when every search request that was sent is eventually
\* answered or rejected and the retry timer eventually fires.  Nothing is
\* assumed of the load and error events of the warm-up iframes.
SpecLive ==
  /\ Init
  /\ [][Next]_vars
  /\ WF_vars(\E i \in 1..MaxPending : FirstSettled(i) /\ UNCHANGED env)
  /\ WF_vars(\E i \in 1..MaxPending : RetryTimer(i) /\ UNCHANGED env)
  /\ WF_vars(\E i \in 1..MaxPending : RetrySettled(i) /\ UNCHANGED env)

\* The search pipeline with every value of the limit selector.
SpecLimit == InitLimit /\ [][NextOverlap]_vars

\* ================================================================== claims
\* What the page shows as the error: the text of the error box, the status
\* line and the toast of the step.
ErrorShown(msg) ==
  /\ outputBox.kind = "error"
  /\ HtmlText(outputBox.html) = msg
  /\ statusText = <<"Error!">>
  /\ last.toast = [type |-> "error", msg |-> msg]

SearchEnded == last.ev \in {"rendered", "renderError", "searchError"}

\* A response fetchJson accepts: success status, JSON content type, a body
\* that is not blank and parses.
ValidResponse(r) ==
  /\ r.status >= 200 /\ r.status <= 299
  /\ r.ct \in {CtJson, CtJsonUtf8}
  /\ Trim(r.body) # <<>>
  /\ JsonParse(r.body).ok

\* The last step ended a search on a response with a non-success status.
EndedOnFailureStatus ==
  /\ last.ev = "searchError"
  /\ last.resp.status > 0
  /\ ~(last.resp.status >= 200 /\ last.resp.status <= 299)

\* C1: in every reachable state the export button and the copy button are
\* both enabled if and only if a ResultSet (lastResult) is held; they are
\* never enabled with none held and never disabled while one is held.
C1_ButtonsEnabledIffResultHeld ==
  /\ (~downloadBtnDisabled /\ ~copyJsonBtnDisabled) <=> lastResult # JNull
  /\ (downloadBtnDisabled /\ copyJsonBtnDisabled) <=> lastResult = JNull

\* C1 witness: a payload that renderTable stored and then threw on (rows is
\* not a list): the result is held and both buttons are enabled.
C1_Witness ==
  /\ last.ev = "renderError"
  /\ lastResult = DataBadRows
  /\ ~downloadBtnDisabled /\ ~copyJsonBtnDisabled

\* C2 (as stated): a search whose field is empty after trimming issues no
\* network request at all, shows the field-required error and leaves
\* lastSearch and lastResult as they were, in every state, also before the
\* warm-up has completed.
C2_EmptyFieldIssuesNoRequest ==
  [][ last'.ev = "validation" =>
        /\ ~last'.warm /\ last'.reqs = 0
        /\ outputBox'.kind = "error"
        /\ HtmlText(outputBox'.html) \in {<<"Machine ID required">>, <<"Location required">>}
        /\ lastSearch' = lastSearch /\ lastResult' = lastResult ]_vars

\* C3: a search sends at most two GETs; the second goes out only from the
\* wait that follows a refused first attempt, and to the same URL; a search
\* whose first response is valid sends exactly one; when the retry fails too
\* there is no third request and the retry's failure is what is shown.
C3_State ==
  /\ \A i \in 1..Len(tasks) :
       tasks[i].pc \in {"fetch1", "delay", "fetch2"} =>
         /\ tasks[i].sent = IF tasks[i].pc = "fetch2"
                            THEN <<tasks[i].abs, tasks[i].abs>>
                            ELSE <<tasks[i].abs>>
         /\ (tasks[i].pc \in {"delay", "fetch2"}) <=> (tasks[i].first # "none")
  /\ SearchEnded =>
       /\ last.reqs \in {1, 2}
       /\ (last.reqs = 2) <=> (last.first # "none")
  /\ (last.ev = "searchError" /\ last.reqs = 2) =>
       ErrorShown(IF last.resp = NetworkFailure THEN NetworkErrorMessage
                  ELSE Attempted[last.resp].msg)

C3_Step ==
  /\ \A i \in 1..Len(tasks) :
       (Len(tasks') = Len(tasks) /\ tasks[i].pc # "fetch2" /\ tasks'[i].pc = "fetch2")
         => (tasks[i].pc = "delay" /\ tasks'[i].abs = tasks[i].abs)
  /\ (last'.ev \in {"rendered", "renderError"} /\ last'.reqs = 1)
       => ValidResponse(last'.resp)

C3_AtMostOneRetry == []C3_State /\ [][C3_Step]_vars

\* C3 witness: a search ended with an error after its retry was refused too.
C3_Witness ==
  /\ last.ev = "searchError" /\ last.reqs = 2 /\ last.first = "status"
  /\ last.resp = Resp(500, CtJson, TxtDetail)

\* C4 (as stated): every transport failure of a search's first attempt, a
\* rejected fetch as well as a non-success status, is followed by exactly one
\* retry before any error is shown.
C4_TransportFailureIsRetried ==
  (/\ last.ev = "searchError"
   /\ \/ last.first = "status"
      \/ last.reqs = 1 /\ (last.resp = NetworkFailure \/ EndedOnFailureStatus))
  => last.reqs = 2

\* The message C5 states for a non-success response.
C5_StatedMessage(r) ==
  IF r.readFails THEN <<"HTTP ", ToString(r.status)>>
  ELSE IF r.ct \in {CtJson, CtJsonUtf8}
       THEN IF ~JsonParse(r.body).ok THEN <<"HTTP ", ToString(r.status)>>
            ELSE IF K("detail") \in DOMAIN JsonParse(r.body).val.f
                 THEN JsonParse(r.body).val.f[K("detail")].s
                 ELSE JsonStringify(JsonParse(r.body).val)
       ELSE r.body

\* The message as the code derives it: detail counts only when it is not
\* empty, and an empty message becomes "Request failed".
C5_AmendedMessage(r) ==
  LET m == IF r.readFails THEN <<"HTTP ", ToString(r.status)>>
           ELSE IF r.ct \in {CtJson, CtJsonUtf8}
                THEN IF ~JsonParse(r.body).ok THEN <<"HTTP ", ToString(r.status)>>
                     ELSE IF /\ K("detail") \in DOMAIN JsonParse(r.body).val.f
                             /\ JsonParse(r.body).val.f[K("detail")].s # <<>>
                          THEN JsonParse(r.body).val.f[K("detail")].s
                          ELSE JsonStringify(JsonParse(r.body).val)
                ELSE r.body
  IN IF m = <<>> THEN <<"Request failed">> ELSE m

BothAttemptsFailureStatus ==
  EndedOnFailureStatus /\ last.reqs = 2 /\ last.first = "status"

C6_EmptyBodyFailsAsEmpty ==
  [][ (/\ last'.ev \in {"rendered", "renderError", "searchError"}
       /\ last'.resp.status >= 200 /\ last'.resp.status <= 299
       /\ last'.resp.body = <<>>)
      => /\ last'.ev = "searchError"
         /\ outputBox'.kind = "error"
         /\ HtmlText(outputBox'.html) = <<"Empty response from server">>
         /\ last'.toast = [type |-> "error", msg |-> <<"Empty response from server">>]
         /\ lastResult' = lastResult
         /\ downloadBtnDisabled' = downloadBtnDisabled
         /\ copyJsonBtnDisabled' = copyJsonBtnDisabled
         /\ last'.reqs <= 2 ]_vars

\* C7 (as stated): a search that ends in an error of any kind (validation,
\* transport, format, or a failure while rendering) retains nothing:
\* lastSearch, lastResult, the two counters and the enabled state of the two
\* buttons are what they were before.
C7_FailedSearchRetainsNothing ==
  [][ last'.ev \in {"validation", "searchError", "renderError"} =>
        /\ lastSearch' = lastSearch
        /\ lastResult' = lastResult
        /\ matchedPill' = matchedPill
        /\ returnedPill' = returnedPill
        /\ downloadBtnDisabled' = downloadBtnDisabled
        /\ copyJsonBtnDisabled' = copyJsonBtnDisabled ]_vars

\* C8: Reset with no request pending gives the state the page starts in:
\* lastSearch and lastResult absent, export and copy disabled, both counters
\* reading 0, the output showing the idle placeholder and the status "Ready.".
C8_ResetRestoresInitial ==
  (last.ev = "reset" /\ tasks = <<>>) =>
    /\ lastSearch = [t |-> "null"]
    /\ lastResult = [t |-> "null"]
    /\ downloadBtnDisabled /\ copyJsonBtnDisabled
    /\ matchedPill = <<"Matched: ", "0">>
    /\ returnedPill = <<"Returned: ", "0">>
    /\ outputBox = [kind |-> "hint"]
    /\ statusText = <<"Ready.">>

\* C8 witness: a reset with nothing pending, after the warm-up (so after some
\* other activity on the page).
C8_Witness == last.ev = "reset" /\ tasks = <<>> /\ prewarmed /\ iframesCreated > 1

\* The export path for a kind of search.
C9_Path(kind) ==
  IF kind = "machine" THEN "/api/export/machine?machine_id="
  ELSE IF kind = "location" THEN "/api/export/location?q=" ELSE "none"

\* C9: export with no stored search sends nothing and shows "Search first
\* before exporting."; export with a stored search sends exactly one request,
\* to the export path of the stored kind, carrying the stored value (the
\* search held when export is triggered) and no limit parameter.
C9_Step ==
  /\ last'.ev = "exportRefused" =>
       /\ lastSearch = [t |-> "null"]
       /\ tasks' = tasks
       /\ outputBox'.kind = "error"
       /\ HtmlText(outputBox'.html) = <<"Search first before exporting.">>
       /\ last'.toast = [type |-> "error", msg |-> <<"Search first before exporting.">>]
  /\ last'.ev = "exporting" =>
       /\ lastSearch # [t |-> "null"]
       /\ Len(tasks') = Len(tasks) + 1
       /\ LET sent == tasks'[Len(tasks')].sent IN
          /\ Len(sent) = 1
          /\ sent[1][1] = C9_Path(lastSearch.type)
          /\ Tail(sent[1]) = encodeURIComponent(lastSearch.value)
          /\ \A k \in 1..Len(sent[1]) : sent[1][k] # "&limit="
  /\ last'.ev \in {"exported", "exportError"} =>
       /\ last'.reqs = 1
       /\ Len(tasks') = Len(tasks) - 1

C9_ExportFollowsStoredSearch == [][C9_Step]_vars

\* C9 witness: an export of a stored search delivered its file.
C9_Witness ==
  /\ last.ev = "exported"
  /\ last.file = [name |-> <<"results.csv">>, body |-> TxtCsv]
  /\ lastSearch # JNull

\* C10: with overlapping searches every valid response is rendered when it
\* resolves, whatever the order of submission: that step sets lastSearch to
\* the resolving search's kind and value and lastResult, the counters and the
\* table to its payload, so the last one to resolve is what remains; none is
\* dropped for being stale.
C10_Step ==
  (last'.resp.status >= 200 /\ last'.resp.status <= 299) =>
    LET r == last'.resp
        data == JsonParse(r.body).val
        i == last'.older + 1
    IN
    /\ last'.ev = "rendered"
    /\ i \in 1..Len(tasks)
    /\ last'.newer = Len(tasks) - i
    /\ lastSearch' = [t |-> "search", type |-> tasks[i].kind, value |-> tasks[i].v]
    /\ lastResult' = data
    /\ matchedPill' = Rendered[data].matched
    /\ returnedPill' = Rendered[data].returned
    /\ outputBox' = Rendered[data].out
    /\ ~downloadBtnDisabled' /\ ~copyJsonBtnDisabled'

C10_LastResolvedWins == [][C10_Step]_vars

\* C10 witness: a search submitted first resolved after one submitted later
\* had been rendered, and what is held is its own search and payload.
C10_Witness ==
  /\ last.ev = "rendered" /\ last.passed
  /\ lastResult = JsonParse(last.resp.body).val

\* The page looks idle (as a reset leaves it) while search i waits for a
\* response: only a reset after the search's loading message gives this.
C11_ResetWhilePending(i) ==
  /\ i \in 1..Len(tasks)
  /\ tasks[i].pc \in {"fetch1", "fetch2"}
  /\ outputBox = [kind |-> "hint"]
  /\ lastSearch = [t |-> "null"] /\ lastResult = [t |-> "null"]
  /\ downloadBtnDisabled /\ copyJsonBtnDisabled

\* C11: a reset while a search is pending does not cancel it (the pending
\* activations stay as they are), and when that search's response then
\* arrives with a result, the result is stored and rendered: the page is no
\* longer idle (lastSearch and lastResult set, export and copy enabled)
\* though the user made no new search.
C11_Step ==
  /\ last'.ev = "reset" => tasks' = tasks
  /\ \A i \in 1..Len(tasks) :
       (/\ C11_ResetWhilePending(i)
        /\ Len(tasks') = Len(tasks) - 1
        /\ last'.older = i - 1
        /\ last'.resp \in {Resp(200, CtJson, TxtOne), Resp(200, CtJsonUtf8, TxtTwo)})
       => /\ last'.ev = "rendered"
          /\ lastSearch' = [t |-> "search", type |-> tasks[i].kind, value |-> tasks[i].v]
          /\ lastResult' = JsonParse(last'.resp.body).val
          /\ outputBox'.kind = "table"
          /\ ~downloadBtnDisabled' /\ ~copyJsonBtnDisabled'

C11_ResetDoesNotCancel == [][C11_Step]_vars

\* C11 witness: right after a reset the page is idle and the search submitted
\* before it still waits for its response.
C11_Witness ==
  /\ last.ev = "reset"
  /\ C11_ResetWhilePending(1)

\* The number of rows of a payload: the length of its list, 0 when absent.
C12_RowCount(d) ==
  IF K("rows") \in DOMAIN d.f THEN ToString(Len(d.f[K("rows")].a)) ELSE "0"

C12_HasRowList(d) ==
  d.t = "obj" /\ (K("rows") \in DOMAIN d.f => d.f[K("rows")].t = "arr")

C12_State ==
  /\ lastResult = [t |-> "null"] =>
       /\ matchedPill = <<"Matched: ", "0">>
       /\ returnedPill = <<"Returned: ", "0">>
  /\ (lastResult # [t |-> "null"] /\ C12_HasRowList(lastResult)) =>
       /\ matchedPill =
            <<"Matched: ">> \o
            (IF K("matched_rows") \in DOMAIN lastResult.f
             THEN <<ToString(lastResult.f[K("matched_rows")].n)>>
             ELSE <<"undefined">>)
       /\ returnedPill = <<"Returned: ", C12_RowCount(lastResult)>>

C12_Step ==
  last'.ev \in {"searching", "validation", "searchError", "exportRefused", "exportError"}
    => (matchedPill' = matchedPill /\ returnedPill' = returnedPill)

C13_PositiveValue(sel) ==
  CASE sel = <<"2", "5">> -> 25
    [] sel = <<"5", "0">> -> 50
    [] sel = <<"1", "0", "0">> -> 100
    [] sel = <<"1", "2", "p", "x">> -> 12
    [] OTHER -> 0

\* C13 (as stated): the limit sent in every search request is a positive
\* integer: the selector's value when that is a positive integer, and 50
\* when the selector's value is absent, non-numeric, zero or negative.
C13_LimitIsPositive ==
  [][ last'.ev = "searching" =>
        \E i \in 1..Len(tasks') :
          LET url == tasks'[i].abs IN
          /\ tasks'[i].pc = "fetch1"
          /\ url[Len(url) - 1] = "&limit="
          /\ url[Len(url)] \in {ToString(n) : n \in 1..100}
          /\ url[Len(url)] = IF C13_PositiveValue(last'.sel) > 0
                             THEN ToString(C13_PositiveValue(last'.sel))
                             ELSE "50" ]_vars

C14_StoreUnchanged ==
  /\ lastSearch' = lastSearch /\ lastResult' = lastResult
  /\ matchedPill' = matchedPill /\ returnedPill' = returnedPill
  /\ downloadBtnDisabled' = downloadBtnDisabled
  /\ copyJsonBtnDisabled' = copyJsonBtnDisabled

\* C14: copy and export never change the stored result state, whatever their
\* outcome: lastSearch, lastResult, the counters and the enabled state of the
\* two buttons stay.  A clipboard failure is reported by a toast only and
\* leaves the output area; copy with no ResultSet held does nothing.
C14_Step ==
  /\ last'.ev \in {"exportRefused", "exporting", "exportError", "exported",
                   "copyNothing", "copied", "copyFailed"} => C14_StoreUnchanged
  /\ last'.ev = "copyFailed" =>
       /\ lastResult # [t |-> "null"]
       /\ last'.toast = [type |-> "error", msg |-> <<"Copy failed">>]
       /\ ~last'.clipboard.written
       /\ outputBox' = outputBox /\ statusText' = statusText
  /\ last'.ev = "copied" =>
       /\ lastResult # [t |-> "null"]
       /\ last'.clipboard.written
       /\ outputBox' = outputBox /\ statusText' = statusText
  /\ last'.ev = "copyNothing" =>
       /\ lastResult = [t |-> "null"]
       /\ last'.toast.type = "none"
       /\ ~last'.clipboard.written
       /\ outputBox' = outputBox /\ statusText' = statusText
       /\ tasks' = tasks

C14_CopyExportKeepStore == [][C14_Step]_vars

\* C14 witness: an export failed while a search and its result were held.
C14_Witness ==
  /\ last.ev = "exportError"
  /\ lastSearch # JNull /\ lastResult # JNull
  /\ ~downloadBtnDisabled

\* The network operations of one activation that have started and not yet
\* completed: its warm-up iframe while it waits for it, and its requests
\* less those whose response it has already taken.
C15_InFlight(t) ==
  (IF t.pc = "prewarm" THEN 1 ELSE 0) + Len(t.sent)
    - (IF t.pc \in {"delay", "fetch2"} THEN 1 ELSE 0)

C15_State ==
  \A i \in 1..Len(tasks) :
    /\ C15_InFlight(tasks[i]) \in {0, 1}
    /\ tasks[i].pc = "prewarm" => tasks[i].sent = <<>>

C15_Step ==
  \A i \in 1..Len(tasks) :
    (Len(tasks') = Len(tasks) /\ Len(tasks'[i].sent) > Len(tasks[i].sent)) =>
      \/ /\ tasks[i].pc = "delay" /\ tasks[i].first # "none"
         /\ Len(tasks[i].sent) = 1 /\ Len(tasks'[i].sent) = 2
      \/ /\ tasks[i].pc = "prewarm" /\ prewarmed'
         /\ Len(tasks'[i].sent) = 1

\* C15: each user action has at most one network operation in flight at any
\* moment: a search's retry is sent only after its first request has
\* completed, and its data request only after the warm-up wait it performs
\* has finished.
C15_OneOperationInFlight == []C15_State /\ [][C15_Step]_vars

\* C15 witness: a search that waited for the warm-up has its retry in flight,
\* the first request having completed.
C15_Witness ==
  /\ last.ev = "retrying"
  /\ iframesCreated > 1
  /\ tasks[1].pc = "fetch2" /\ Len(tasks[1].sent) = 2

\* C16: rendering is idempotent: a render of a ResultSet d that directly
\* follows a render of the same d leaves the output table, the counters,
\* lastResult, the status and the enabled state of the buttons as the first
\* render left them; and what a render leaves does not depend on the state
\* before it.
C16_Step ==
  last'.ev = "rendered" =>
    /\ \A d \in {DataOne, DataTwo} :
         last'.resp.body = (IF d = DataOne THEN TxtOne ELSE TxtTwo) =>
           /\ lastResult' = d
           /\ outputBox'.kind = "table"
           /\ Len(outputBox'.head) = Len(d.f[K("columns")].a)
           /\ Len(outputBox'.body) = Len(d.f[K("rows")].a)
           /\ statusText' = <<"Loaded results.">>
    /\ (last.ev = "rendered" /\ last'.resp.body = last.resp.body) =>
         /\ outputBox' = outputBox
         /\ matchedPill' = matchedPill /\ returnedPill' = returnedPill
         /\ lastResult' = lastResult
         /\ statusText' = statusText
         /\ downloadBtnDisabled' = downloadBtnDisabled
         /\ copyJsonBtnDisabled' = copyJsonBtnDisabled

C16_RenderIdempotent == [][C16_Step]_vars

\* C16 witness: a payload was rendered directly after a render of the same
\* payload.
C16_Witness ==
  /\ last.ev = "rendered" /\ last.again
  /\ outputBox.kind = "table"

\* Markup h holds no raw '<' or '>' and no '&' other than one that starts an
\* entity.
C17_NoRawMarkup(h) ==
  \A k \in 1..Len(h) :
    /\ h[k] \notin {"<", ">"}
    /\ h[k] = "&" => (k < Len(h) /\ h[k + 1] \in {"amp;", "lt;", "gt;"})

C17_List(d, key) == IF key \in DOMAIN d.f THEN d.f[key].a ELSE <<>>

\* The text of the value a row has for a column: empty when it lacks it.
C17_CellText(row, col) == IF col.s \in DOMAIN row.f THEN row.f[col.s].s ELSE <<>>

\* C17: the table shown for a ResultSet has one header cell per entry of
\* columns, in order, and one body row per entry of rows, in order, each with
\* one cell per column (empty when the row lacks the key); every header, cell
\* and error text in the output has no raw '&', '<' or '>', each being
\* replaced by its entity, '&' first, so that the browser shows the original
\* text.
C17_TableEscaped ==
  /\ outputBox.kind = "table" =>
       LET cols == C17_List(lastResult, <<"columns">>)
           rows == C17_List(lastResult, <<"rows">>)
       IN
       /\ Len(outputBox.head) = Len(cols)
       /\ \A j \in 1..Len(cols) :
            /\ C17_NoRawMarkup(outputBox.head[j])
            /\ HtmlText(outputBox.head[j]) = cols[j].s
       /\ Len(outputBox.body) = Len(rows)
       /\ \A i \in 1..Len(rows) :
            /\ Len(outputBox.body[i]) = Len(cols)
            /\ \A j \in 1..Len(cols) :
                 /\ C17_NoRawMarkup(outputBox.body[i][j])
                 /\ HtmlText(outputBox.body[i][j]) = C17_CellText(rows[i], cols[j])
  /\ outputBox.kind = "error" =>
       /\ C17_NoRawMarkup(outputBox.html)
       /\ last.ev \in {"validation", "searchError", "renderError",
                       "exportRefused", "exportError"}
            => HtmlText(outputBox.html) = last.toast.msg

\* C17 witness: the table of the payload with "n<m", "R&D", "1>0" and a
\* missing key is shown.
C17_Witness ==
  /\ outputBox.kind = "table"
  /\ lastResult = DataTwo
  /\ outputBox.head[2] = <<"n", "&", "lt;", "m">>
  /\ outputBox.body[1] = << <<"R", "&", "amp;", "D">>, <<>> >>
  /\ outputBox.body[2][2] = <<"1", "&", "gt;", "0">>

\* C18 (as stated): lastSearch and lastResult are either both absent or both
\* present, and when present lastResult is the payload returned for the
\* request lastSearch describes: lastSearch is only ever set together with
\* lastResult, to the payload of the response that ended that search.
C18_SearchPairedWithResult ==
  /\ [](lastSearch = [t |-> "null"] <=> lastResult = [t |-> "null"])
  /\ [][ lastSearch' # lastSearch =>
           \/ lastSearch' = [t |-> "null"] /\ lastResult' = [t |-> "null"]
           \/ /\ last'.ev = "rendered"
              /\ lastResult' # [t |-> "null"]
              /\ lastResult' = JsonParse(last'.resp.body).val ]_vars

\* C19 (as stated): across boot and any number of searches, also searches
\* submitted before the first warm-up iframe has fired load or error, at most
\* one warm-up iframe to /health is ever created.
C19_OneWarmupIframe == iframesCreated <= 1

C20_SearchPending ==
  \E i \in 1..Len(tasks) : tasks[i].pc \in {"prewarm", "fetch1", "delay", "fetch2"}

C20_LoadingShown ==
  statusText \in {<<"Searching machine...">>, <<"Searching location...">>}

\* C20 (as stated): provided every search request sent is eventually answered
\* or rejected, every submitted search eventually ends, with a rendered
\* result or with a displayed error; it cannot wait forever on the warm-up,
\* and the status never stays at the loading message once no search is
\* pending.
C20_SearchTerminates ==
  /\ C20_SearchPending ~>
       last.ev \in {"rendered", "renderError", "searchError", "validation"}
  /\ [](~C20_SearchPending => ~C20_LoadingShown)
====
